---------------------------- MODULE Spec2Model ----------------------------
(***************************************************************************)
(* Model of src/src/screens/signin/index.tsx: the Signin view, the         *)
(* background-context resource resolver (loadWorkflow, loadConfig,         *)
(* generatePasscodeAndConfig) and the module-level objects it reads and    *)
(* writes.                                                                 *)
(*                                                                         *)
(* JavaScript values are modelled as follows.  A string is a TLA+ string;  *)
(* the values undefined and null and a missing key are the reserved        *)
(* strings UNDEFINED, NULL and ABSENT.  An object is a function from its   *)
(* keys to its values.  DEFAULT_CLIENT_CONFIG is one object whose nested   *)
(* objects (secrets, agents, identifiers, users, credentials) are reached  *)
(* by reference: a config made by the object spread {...DEFAULT_CLIENT_    *)
(* CONFIG} owns its top-level keys and ALIASES the nested objects, so a    *)
(* write through config.secrets or config.agents is a write to the         *)
(* template's object.  Three specifications share the state: Spec makes    *)
(* calls one after another, each action being one whole call with the      *)
(* outcome of its I/O steps chosen by the environment; AsyncSpec lets       *)
(* calls overlap, each action being one turn of the event loop between two  *)
(* awaits; ViewSpec renders the Signin view inside its caller.              *)
(* Every exception the environment raises is an Error object (fetch        *)
(* rejects with TypeError/DOMException, JSON.parse with SyntaxError,       *)
(* js-yaml with YAMLException).                                            *)
(***************************************************************************)
EXTENDS Integers, Sequences, FiniteSets, TLC

VARIABLES
    DEFAULT_CLIENT_CONFIG,  \* current contents of the module-level template
    call,                   \* the inputs of the last completed call
    ret,                    \* what that call returned to its caller
    trace,                  \* the tiers that call consulted, in order
    calls,                  \* how many calls have completed
    tasks,                  \* the calls in flight when calls overlap
    order,                  \* the overlapping calls that returned, in that order
    screen                  \* the Signin view: its props, what it rendered, the
                            \* last callback invoked

vars == <<DEFAULT_CLIENT_CONFIG, call, ret, trace, calls, tasks, order, screen>>

---------------------------------------------------------------------------
(* Bounds of the model *)

\* how many calls one behaviour makes
MaxCalls == 2
\* how many distinct non-empty passcodes callers supply
NumPasscodes == 1
\* how many distinct outcomes of the Math.random sequence are explored
NumSeeds == 2
\* how many calls overlap in one behaviour
MaxTasks == 2

---------------------------------------------------------------------------
(* JavaScript values *)

UNDEFINED == "<undefined>"
NULL == "<null>"
ABSENT == "<absent>"

\* an object with no keys
EmptyObj == [k \in {} |-> ABSENT]

\* obj[k]: undefined when the key is missing
Get(obj, k) == IF k \in DOMAIN obj THEN obj[k] ELSE UNDEFINED

\* JavaScript truthiness of a string-or-undefined value
Truthy(v) == v # UNDEFINED /\ v # NULL /\ v # ABSENT /\ v # ""

\* {...obj, ...over}: keys of over win, keys of obj are kept
Spread(obj, over) == over @@ obj

---------------------------------------------------------------------------
(* The module-level template *)

AUTOGENERATED == "AUTOGENERATED_AT_RUNTIME"

InitialTemplate ==
    [ secrets     |-> [browser_extension |-> AUTOGENERATED],
      agents      |-> [browser_extension |-> [secret |-> "browser_extension"]],
      identifiers |-> ("browser-extension-aid" :>
                          [agent |-> "browser_extension",
                           name  |-> "browser-extension-aid"]),
      users       |-> << [type |-> "EXTENSION", alias |-> "extension-user",
                          identifiers |-> <<"browser-extension-aid">>] >>,
      credentials |-> EmptyObj,
      agentUrl    |-> ABSENT,
      bootUrl     |-> ABSENT,
      bran        |-> ABSENT ]

Sections == {"secrets", "agents", "identifiers", "users", "credentials"}


---------------------------------------------------------------------------
(* Config objects held by a call *)

\* A nested object of a config: "alias" is a reference to the template's
\* object of the same name, "own" an object only this config refers to.
Alias == [in |-> "alias", val |-> EmptyObj]
Own(obj) == [in |-> "own", val |-> obj]
Missing == [in |-> "absent", val |-> EmptyObj]

\* the object JSON.parse("{}") builds; also the placeholder beside a
\* result that is not an object
NoConfig ==
    [ secrets |-> Missing, agents |-> Missing, identifiers |-> Missing,
      users |-> Missing, credentials |-> Missing,
      agentUrl |-> ABSENT, bootUrl |-> ABSENT, bran |-> ABSENT ]

\* const config = { ...DEFAULT_CLIENT_CONFIG }: a new top-level object whose
\* nested objects are the template's own
ShallowCopy(tmpl) ==
    [ secrets |-> Alias, agents |-> Alias, identifiers |-> Alias,
      users |-> Alias, credentials |-> Alias,
      agentUrl |-> tmpl.agentUrl, bootUrl |-> tmpl.bootUrl, bran |-> tmpl.bran ]

\* st is the pair [config, tmpl] a call works on.
\* config[s], read through the reference
ReadSec(st, s) ==
    IF st.config[s].in = "alias" THEN st.tmpl[s] ELSE st.config[s].val

\* config[s].key = ...: an in-place write to the object config[s] refers to
WriteSec(st, s, obj) ==
    IF st.config[s].in = "alias"
    THEN [st EXCEPT !.tmpl[s] = obj]
    ELSE [st EXCEPT !.config[s].val = obj]

\* config[s] = {...}: the config's key now refers to a new object
AssignSec(st, s, obj) == [st EXCEPT !.config[s] = Own(obj)]

\* what the holder of config sees when it reads it now
View(config, tmpl) ==
    [ k \in DOMAIN config |->
        IF k \in Sections /\ config[k].in = "alias"
        THEN Own(tmpl[k])
        ELSE config[k] ]

---------------------------------------------------------------------------
(* Runtime values *)

\* runtimeValues: undefined (given = FALSE) or an object with some of the
\* keys agentUrl, bootUrl, passcode, bran, aidName
NoRuntimeValues == [given |-> FALSE, vals |-> EmptyObj]

\* runtimeValues.k
RV(rv, k) == Get(rv.vals, k)

\* ...(runtimeValues.bran ? { bran: runtimeValues.bran } : {})
BranPart(rv) ==
    IF Truthy(RV(rv, "bran")) THEN [bran |-> RV(rv, "bran")] ELSE EmptyObj

\* OverlayAgent with the spread written last, so that the entry's existing
\* keys win over the runtime values
OverlayAgentEntryWins(entry, rv) ==
    Spread(Spread([ url      |-> RV(rv, "agentUrl"),
                    boot_url |-> RV(rv, "bootUrl"),
                    passcode |-> RV(rv, "passcode") ],
                  BranPart(rv)),
           entry)

\* OverlayAgent without the spread of the existing entry: the entry is
\* replaced by the runtime values alone
OverlayAgentReplacesEntry(entry, rv) ==
    Spread([ url      |-> RV(rv, "agentUrl"),
             boot_url |-> RV(rv, "bootUrl"),
             passcode |-> RV(rv, "passcode") ],
           BranPart(rv))

\* { ...entry, url, boot_url, passcode, ...bran }
OverlayAgent(entry, rv) ==
    Spread(entry,
           Spread([ url      |-> RV(rv, "agentUrl"),
                    boot_url |-> RV(rv, "bootUrl"),
                    passcode |-> RV(rv, "passcode") ],
                  BranPart(rv)))

\* { agent: "gleif-agent-1", name: runtimeValues.aidName }
AidEntry(rv) == [agent |-> "gleif-agent-1", name |-> RV(rv, "aidName")]

\* config.agentUrl = ...; config.bootUrl = ...; if (bran) config.bran = ...
OverlayTop(st, rv) ==
    [st EXCEPT !.config.agentUrl = RV(rv, "agentUrl"),
               !.config.bootUrl  = RV(rv, "bootUrl"),
               !.config.bran     = IF Truthy(RV(rv, "bran"))
                                   THEN RV(rv, "bran") ELSE @]

---------------------------------------------------------------------------
(* loadConfig, the default-template branch (the inner catch) *)

DefaultSecret(st, rv) ==
    IF Truthy(RV(rv, "passcode"))
    THEN WriteSec(st, "secrets",
                  Spread(ReadSec(st, "secrets"),
                         [browser_extension |-> RV(rv, "passcode")]))
    ELSE st

DefaultAgent(st, rv) ==
    IF st.config.agents.in # "absent"
       /\ "browser_extension" \in DOMAIN ReadSec(st, "agents")
    THEN WriteSec(st, "agents",
                  Spread(ReadSec(st, "agents"),
                         [browser_extension |->
                            OverlayAgent(ReadSec(st, "agents").browser_extension, rv)]))
    ELSE st

DefaultIdentifiers(st, rv) ==
    IF Truthy(RV(rv, "aidName"))
    THEN AssignSec(st, "identifiers",
                   Spread(ReadSec(st, "identifiers"),
                          RV(rv, "aidName") :> AidEntry(rv)))
    ELSE st

\* the whole branch: the config returned and the template it leaves behind;
\* none of its statements throws on the values modelled (threw stays FALSE)
DefaultBranch(rv, tmpl) ==
    LET st0 == [config |-> ShallowCopy(tmpl), tmpl |-> tmpl, threw |-> FALSE]
    IN  IF rv.given
        THEN DefaultIdentifiers(
                 OverlayTop(DefaultAgent(DefaultSecret(st0, rv), rv), rv), rv)
        ELSE st0

---------------------------------------------------------------------------
(* loadConfig, the bundled-file branch (the inner try) *)

\* Contents a bundled src/user_config/<name>.json may have.
JsonMalformed == "{\"secrets\": "
JsonNull == "null"
JsonEmptyObject == "{}"
JsonGleif == "{\"secrets\":{\"gleif-agent-1\":\"S1\"},\"agents\":{\"gleif-agent-1\":{\"secret\":\"gleif-agent-1\",\"url\":\"http://old\"}},\"identifiers\":{\"gleif-aid-1\":{\"agent\":\"gleif-agent-1\",\"name\":\"gleif-aid-1\"}},\"users\":[],\"credentials\":{}}"
JsonOther == "{\"secrets\":{\"other\":\"S2\"},\"agents\":{\"other-agent\":{\"secret\":\"other\"}},\"identifiers\":{\"other-aid\":{\"agent\":\"other-agent\",\"name\":\"other-aid\"}},\"users\":[],\"credentials\":{}}"

JsonTexts ==
    {JsonMalformed, JsonNull, JsonEmptyObject, JsonGleif, JsonOther}

\* A loadConfig return value: an object (a config) or null.
ObjectValue(config) == [kind |-> "object", config |-> config]
NullValue == [kind |-> "null", config |-> NoConfig]

\* JSON.parse(text): a SyntaxError (threw) or the value the text denotes
JSONParse(text) ==
    CASE text = JsonNull -> [threw |-> FALSE, value |-> NullValue]
      [] text = JsonEmptyObject -> [threw |-> FALSE, value |-> ObjectValue(NoConfig)]
      [] text = JsonGleif ->
           [threw |-> FALSE, value |-> ObjectValue(
              [ secrets |-> Own("gleif-agent-1" :> "S1"),
                agents |-> Own("gleif-agent-1" :>
                               [secret |-> "gleif-agent-1", url |-> "http://old"]),
                identifiers |-> Own("gleif-aid-1" :>
                               [agent |-> "gleif-agent-1", name |-> "gleif-aid-1"]),
                users |-> Own(<< >>),
                credentials |-> Own(EmptyObj),
                agentUrl |-> ABSENT, bootUrl |-> ABSENT, bran |-> ABSENT ])]
      [] text = JsonOther ->
           [threw |-> FALSE, value |-> ObjectValue(
              [ secrets |-> Own("other" :> "S2"),
                agents |-> Own("other-agent" :> [secret |-> "other"]),
                identifiers |-> Own("other-aid" :>
                               [agent |-> "other-agent", name |-> "other-aid"]),
                users |-> Own(<< >>),
                credentials |-> Own(EmptyObj),
                agentUrl |-> ABSENT, bootUrl |-> ABSENT, bran |-> ABSENT ])]
      [] OTHER -> [threw |-> TRUE, value |-> NullValue]

\* What the environment does to one call's bundled-file tier: getURL (or
\* getExtensionApi) throws, fetch rejects, the response is not ok,
\* response.text() rejects, or the body arrives as text.
FileFailures == {"getURLThrows", "fetchRejects", "notOk", "textRejects"}

FileIO(texts) ==
    [outcome : FileFailures, text : {""}] \cup [outcome : {"ok"}, text : texts]

FileAgent(st, rv) ==
    IF st.config.agents.in # "absent"
       /\ "gleif-agent-1" \in DOMAIN ReadSec(st, "agents")
    THEN WriteSec(st, "agents",
                  Spread(ReadSec(st, "agents"),
                         "gleif-agent-1" :>
                            OverlayAgent(ReadSec(st, "agents")["gleif-agent-1"], rv)))
    ELSE st

FileIdentifiers(st, rv) ==
    IF Truthy(RV(rv, "aidName")) /\ st.config.identifiers.in # "absent"
    THEN WriteSec(st, "identifiers",
                  Spread(ReadSec(st, "identifiers"),
                         RV(rv, "aidName") :> AidEntry(rv)))
    ELSE st

\* if (runtimeValues) { ... } on the parsed value.  Reading config.agents of
\* null throws a TypeError.
FileOverlay(parsed, rv, tmpl) ==
    IF ~rv.given THEN [threw |-> FALSE, value |-> parsed, tmpl |-> tmpl]
    ELSE IF parsed.kind # "object"
    THEN [threw |-> TRUE, value |-> parsed, tmpl |-> tmpl]
    ELSE LET st0 == [config |-> parsed.config, tmpl |-> tmpl]
             st1 == FileIdentifiers(OverlayTop(FileAgent(st0, rv), rv), rv)
         IN  [threw |-> FALSE, value |-> ObjectValue(st1.config), tmpl |-> st1.tmpl]

\* FileBranch with JSON.parse guarded by its own try that returns null, so
\* that a parse error no longer reaches the inner catch
FileBranchParseErrorReturnsNull(rv, io, tmpl) ==
    IF io.outcome # "ok"
    THEN [threw |-> TRUE, value |-> NullValue, tmpl |-> tmpl]
    ELSE LET parsed == JSONParse(io.text)
         IN  IF parsed.threw
             THEN [threw |-> FALSE, value |-> NullValue, tmpl |-> tmpl]
             ELSE FileOverlay(parsed.value, rv, tmpl)

\* the inner try: threw, or the value returned
FileBranch(rv, io, tmpl) ==
    IF io.outcome # "ok"
    THEN [threw |-> TRUE, value |-> NullValue, tmpl |-> tmpl]
    ELSE LET parsed == JSONParse(io.text)
         IN  IF parsed.threw
             THEN [threw |-> TRUE, value |-> NullValue, tmpl |-> tmpl]
             ELSE FileOverlay(parsed.value, rv, tmpl)

\* loadConfig(configName, runtimeValues) run against the template tmpl with
\* the file tier behaving as io: the value returned (or threw, when an
\* exception leaves the call), the template left behind and the tiers
\* consulted.  The inner catch runs the default branch; the outer catch
\* (lines 428-431) returns null when the default branch throws.
loadConfig(configName, rv, io, tmpl) ==
    LET file == FileBranch(rv, io, tmpl)
        dflt == DefaultBranch(rv, file.tmpl)
    IN  IF ~file.threw
        THEN [threw |-> FALSE, ret |-> file.value, tmpl |-> file.tmpl,
              trace |-> <<"file">>]
        ELSE IF ~dflt.threw
        THEN [threw |-> FALSE, ret |-> ObjectValue(dflt.config), tmpl |-> dflt.tmpl,
              trace |-> <<"file", "default">>]
        ELSE [threw |-> FALSE, ret |-> NullValue, tmpl |-> dflt.tmpl,
              trace |-> <<"file", "default">>]

---------------------------------------------------------------------------
(* generatePasscodeAndConfig *)

characters ==
    << "A", "B", "C", "D", "E", "F", "G", "H", "I", "J", "K", "L", "M", "N", "O", "P",
       "Q", "R", "S", "T", "U", "V", "W", "X", "Y", "Z", "a", "b", "c", "d", "e", "f",
       "g", "h", "i", "j", "k", "l", "m", "n", "o", "p", "q", "r", "s", "t", "u", "v",
       "w", "x", "y", "z", "0", "1", "2", "3", "4", "5", "6", "7", "8", "9", "-", "_" >>

length == 20

\* characters.charAt(Math.floor(Math.random() * characters.length)), the
\* random index being d in 0..63
charAt(d) == characters[d + 1]

\* the loop of generateRandomPasscode over the draws of Math.random
RECURSIVE AppendDraws(_, _, _)
AppendDraws(result, draws, i) ==
    IF i > Len(draws) THEN result
    ELSE AppendDraws(result \o charAt(draws[i]), draws, i + 1)

\* generateRandomPasscode with the loop starting at i = 1
generateRandomPasscodeFromOne(draws) == AppendDraws("", draws, 2)

generateRandomPasscode(draws) == AppendDraws("", draws, 1)

\* the sequences of random indices explored: seed s draws (63 * s * i) % 64
\* at iteration i, so that seed 0 draws index 0 throughout and seed 1 starts
\* at index 63, the largest Math.floor(Math.random() * 64) yields
DrawSequences ==
    { [i \in 1..length |-> (63 * s * i) % Len(characters)] : s \in 0..(NumSeeds - 1) }

generatePasscodeAndConfig(draws, tmpl) ==
    LET passcode == generateRandomPasscode(draws)
        st0 == [config |-> ShallowCopy(tmpl), tmpl |-> tmpl]
        st1 == WriteSec(st0, "secrets",
                        Spread(ReadSec(st0, "secrets"),
                               [browser_extension |-> passcode]))
    IN  [passcode |-> passcode, config |-> st1.config, tmpl |-> st1.tmpl]

---------------------------------------------------------------------------
(* Workflows *)

\* A value yaml.load or getFallbackWorkflow yields: an object (a workflow
\* structure), a string (a YAML scalar), undefined (an empty document) or
\* null.
WfObject(obj) == [kind |-> "object", obj |-> obj, str |-> ""]
WfString(s) == [kind |-> "string", obj |-> EmptyObj, str |-> s]
WfUndefined == [kind |-> "undefined", obj |-> EmptyObj, str |-> ""]
WfNull == [kind |-> "null", obj |-> EmptyObj, str |-> ""]

ClientWorkflow(description) ==
    [workflow |-> [steps |-> [gleif_client |->
        [ id |-> "gleif_client", type |-> "create_client",
          agent_name |-> "gleif-agent-1", description |-> description ]]]]

AidWorkflow(description) ==
    [workflow |-> [steps |-> [gleif_aid |->
        [ id |-> "gleif_aid", type |-> "create_aid",
          aid |-> "gleif-aid-1", description |-> description ]]]]

EmbeddedClientYaml == "\nworkflow:\n  steps:\n    gleif_client:\n      id: 'gleif_client'\n      type: 'create_client'\n      agent_name: 'gleif-agent-1'\n      description: 'Creating client for gleif agent'\n  "
EmbeddedAidYaml == "\nworkflow:\n  steps:\n    gleif_aid:\n      id: 'gleif_aid'\n      type: 'create_aid'\n      aid: 'gleif-aid-1'\n      description: 'Creating AID for gleif-aid-1'\n  "

EMBEDDED_WORKFLOWS ==
    [ n \in {"create-client", "create-client-workflow", "create-aid-workflow"} |->
        IF n = "create-aid-workflow" THEN EmbeddedAidYaml ELSE EmbeddedClientYaml ]

\* String(Object.prototype.toString), what yaml.load makes of its argument
\* when the looked-up member is the inherited function
InheritedToString == "function toString() { [native code] }"

\* EmbeddedLookup with the table keyed by file name (<name>.yaml), so that no
\* workflow name finds its entry
EmbeddedLookupByFileName(workflowName) ==
    IF workflowName = "toString.yaml" THEN InheritedToString ELSE UNDEFINED

\* EMBEDDED_WORKFLOWS[workflowName]: the table is an object literal, so a
\* name that is a member of Object.prototype finds the inherited member
EmbeddedLookup(workflowName) ==
    IF workflowName \in DOMAIN EMBEDDED_WORKFLOWS
    THEN EMBEDDED_WORKFLOWS[workflowName]
    ELSE IF workflowName = "toString" THEN InheritedToString
    ELSE UNDEFINED

\* Texts a bundled src/workflows/<name>.yaml or a stored workflow_<name>
\* entry may hold.
YamlFileWorkflow == "workflow:\n  steps:\n    gleif_client:\n      id: 'gleif_client'\n      type: 'create_client'\n      agent_name: 'gleif-agent-1'\n      description: 'from file'\n"
YamlStoredWorkflow == "workflow:\n  steps:\n    gleif_aid:\n      id: 'gleif_aid'\n      type: 'create_aid'\n      aid: 'gleif-aid-1'\n      description: 'from storage'\n"
YamlMalformed == "workflow: [unclosed"
YamlScalar == "just text"
YamlEmpty == ""

YamlFileTexts == {YamlFileWorkflow, YamlMalformed, YamlScalar, YamlEmpty}
YamlStoredTexts == {YamlStoredWorkflow, YamlMalformed, YamlEmpty}

\* yaml.load(text): a YAMLException (threw) or the document's value
yamlLoad(text) ==
    CASE text = EmbeddedClientYaml ->
           [threw |-> FALSE,
            value |-> WfObject(ClientWorkflow("Creating client for gleif agent"))]
      [] text = EmbeddedAidYaml ->
           [threw |-> FALSE,
            value |-> WfObject(AidWorkflow("Creating AID for gleif-aid-1"))]
      [] text = YamlFileWorkflow ->
           [threw |-> FALSE, value |-> WfObject(ClientWorkflow("from file"))]
      [] text = YamlStoredWorkflow ->
           [threw |-> FALSE, value |-> WfObject(AidWorkflow("from storage"))]
      [] text = YamlScalar -> [threw |-> FALSE, value |-> WfString(YamlScalar)]
      [] text = InheritedToString ->
           [threw |-> FALSE, value |-> WfString(InheritedToString)]
      [] text = YamlEmpty -> [threw |-> FALSE, value |-> WfUndefined]
      [] OTHER -> [threw |-> TRUE, value |-> WfUndefined]

getFallbackWorkflow(workflowName) ==
    CASE workflowName \in {"create-client-workflow", "create-client"} ->
           WfObject(ClientWorkflow("Creating client for gleif agent (FALLBACK)"))
      [] workflowName = "create-aid-workflow" ->
           WfObject(AidWorkflow("Creating AID for gleif-aid-1 (FALLBACK)"))
      [] OTHER -> WfNull

\* What the environment does to one call's storage tier: getExtensionApi
\* throws, storage.local.get rejects, or it resolves with the entry
\* workflow_<name> being stored (UNDEFINED when there is none).
StorageIO ==
    [outcome : {"apiThrows", "getRejects"}, stored : {UNDEFINED}]
      \cup [outcome : {"ok"}, stored : {UNDEFINED} \cup YamlStoredTexts]

\* How a block of code ends: it returns value (threw = FALSE) or an
\* exception leaves it (threw = TRUE); trace lists the tiers consulted so far.
Returned(value, tiers) == [threw |-> FALSE, value |-> value, trace |-> tiers]
Thrown(tiers) == [threw |-> TRUE, value |-> WfUndefined, trace |-> tiers]

\* the inner try (lines 226-239): getURL, fetch, the status test, text() and
\* yaml.load can each throw
WorkflowFileTry(workflowName, io) ==
    LET parsed == yamlLoad(io.text)
    IN  IF io.outcome = "ok" /\ ~parsed.threw
        THEN Returned(parsed.value, <<"file">>)
        ELSE Thrown(<<"file">>)

\* the storage try (lines 251-259): found tells whether it returned a
\* workflow; getExtensionApi, storage.local.get and yaml.load can each throw
StorageTry(workflowName, sio) ==
    LET parsed == yamlLoad(sio.stored)
    IN  IF sio.outcome # "ok" THEN [threw |-> TRUE, found |-> FALSE, value |-> WfUndefined]
        ELSE IF ~Truthy(sio.stored)
        THEN [threw |-> FALSE, found |-> FALSE, value |-> WfUndefined]
        ELSE IF parsed.threw
        THEN [threw |-> TRUE, found |-> FALSE, value |-> WfUndefined]
        ELSE [threw |-> FALSE, found |-> TRUE, value |-> parsed.value]

\* the storage tier with its catch, then the last resort (lines 250-266)
StorageTier(workflowName, sio, tiers) ==
    LET stored == StorageTry(workflowName, sio)
    IN  IF ~stored.threw /\ stored.found
        THEN Returned(stored.value, tiers \o <<"storage">>)
        ELSE Returned(getFallbackWorkflow(workflowName),
                      tiers \o <<"storage", "fallback">>)

\* WorkflowInnerCatch with the storage read placed before the embedded lookup
WorkflowInnerCatchStorageFirst(workflowName, sio, tiers) ==
    LET stored == StorageTry(workflowName, sio)
        embeddedWorkflow == EmbeddedLookup(workflowName)
        parsed == yamlLoad(embeddedWorkflow)
    IN  IF ~stored.threw /\ stored.found
        THEN Returned(stored.value, tiers \o <<"storage">>)
        ELSE IF Truthy(embeddedWorkflow)
        THEN IF parsed.threw
             THEN Thrown(tiers \o <<"storage", "embedded">>)
             ELSE Returned(parsed.value, tiers \o <<"storage", "embedded">>)
        ELSE Returned(getFallbackWorkflow(workflowName),
                      tiers \o <<"storage", "embedded", "fallback">>)

\* the inner catch (lines 240-267): an exception of yaml.load on the embedded
\* text leaves it
WorkflowInnerCatch(workflowName, sio, tiers) ==
    LET embeddedWorkflow == EmbeddedLookup(workflowName)
        parsed == yamlLoad(embeddedWorkflow)
    IN  IF Truthy(embeddedWorkflow)
        THEN IF parsed.threw
             THEN Thrown(tiers \o <<"embedded">>)
             ELSE Returned(parsed.value, tiers \o <<"embedded">>)
        ELSE StorageTier(workflowName, sio, tiers \o <<"embedded">>)

\* the outer catch (lines 268-272)
WorkflowOuterCatch(workflowName, tiers) ==
    Returned(getFallbackWorkflow(workflowName), tiers \o <<"fallback">>)

\* loadWorkflow without its catch blocks: a failure of the file tier leaves
\* the call
loadWorkflowWithoutCatch(workflowName, io, sio) ==
    WorkflowFileTry(workflowName, io)

\* loadWorkflow(workflowName) with the file tier behaving as io and the
\* storage tier as sio
loadWorkflow(workflowName, io, sio) ==
    LET file == WorkflowFileTry(workflowName, io)
        inner == WorkflowInnerCatch(workflowName, sio, file.trace)
    IN  IF ~file.threw THEN file
        ELSE IF ~inner.threw THEN inner
        ELSE WorkflowOuterCatch(workflowName, inner.trace)

---------------------------------------------------------------------------
(* Inputs *)

PASSCODES == <<"P1", "P2", "P3", "P4">>
Passcodes == { PASSCODES[i] : i \in 1..NumPasscodes }

RuntimeChoices ==
    [ agentUrl : {ABSENT, "U1"},
      bootUrl  : {ABSENT, "B1"},
      passcode : {ABSENT, ""} \cup Passcodes,
      bran     : {ABSENT, "", "BR1"},
      aidName  : {ABSENT, "aid1"} ]

\* the object holding exactly the keys chosen
ObjectOf(c) == [k \in {j \in DOMAIN c : c[j] # ABSENT} |-> c[k]]

RuntimeValuesSet ==
    {NoRuntimeValues} \cup { [given |-> TRUE, vals |-> ObjectOf(c)] : c \in RuntimeChoices }

ConfigNames == {"client-config"}
WorkflowNames ==
    {"create-client", "create-client-workflow", "create-aid-workflow",
     "issue-credential", "toString"}

NoIO == [outcome |-> "none", text |-> ""]
NoStorageIO == [outcome |-> "none", stored |-> UNDEFINED]

\* Overlapping calls: the identities of the calls, and a call not yet made.
\* pc is the await the call is suspended at ("fetch", "text", "storage"),
\* "idle" before the call and "done" once its promise is resolved; fetches,
\* texts and reads count the I/O operations the call has issued; pre is the
\* template as it was when the call was made.
Tasks == 1..MaxTasks

IdleTask ==
    [ op |-> "none", name |-> "", rv |-> NoRuntimeValues, pc |-> "idle",
      io |-> NoIO, sio |-> NoStorageIO, pre |-> InitialTemplate,
      ret |-> [kind |-> "none"], seen |-> NoConfig, trace |-> << >>,
      fetches |-> 0, texts |-> 0, reads |-> 0 ]

\* the arguments overlapping calls are made with
AsyncRuntimeValues ==
    { rv \in RuntimeValuesSet :
        \/ ~rv.given
        \/ DOMAIN rv.vals = {"passcode"} /\ Truthy(rv.vals.passcode)
        \/ DOMAIN rv.vals = {"agentUrl", "bran"} /\ Truthy(rv.vals.bran) }

AsyncWorkflowNames == {"create-client", "issue-credential"}

---------------------------------------------------------------------------
(* The Signin view (lines 21-97).  An element is a record of what the       *)
(* render produced; a callback handed to a child or to the DOM is a record  *)
(* naming the prop it calls and the argument it calls it with.              *)

\* formatMessage({ id }) of react-intl
formatMessage(id) == "message:" \o id

\* () => props.setShowConfig(state)
CallsSetShowConfig(state) == [calls |-> "setShowConfig", state |-> state]

\* the settings button with a handler that flips the toggle
SettingsButtonToggles(props) ==
    [onClick |-> CallsSetShowConfig(~props.showConfig)]

\* <button onClick={() => props.setShowConfig(true)}>
SettingsButton(props) == [onClick |-> CallsSetShowConfig(TRUE)]

\* the sub-view chosen by the conditional of lines 54-66
SubView(props) ==
    IF props.showConfig
    THEN [ component |-> "Config",
           props |-> [ handleBack |-> CallsSetShowConfig(FALSE),
                       afterSetUrl |-> props.afterSetUrl ] ]
    ELSE [ component |-> "SigninComponent",
           props |-> [ signinError |-> props.signinError,
                       isLoading |-> props.isLoading,
                       handleConnect |-> props.handleConnect,
                       logo |-> props.logo ] ]

\* Signin(props): the element tree it returns
Signin(props) ==
    [ title |-> IF props.showConfig THEN formatMessage("account.settings")
                ELSE props.title,
      button |-> SettingsButton(props),
      body |-> SubView(props),
      links |-> [ onboard |-> Get(props.vendorData, "onboardingUrl"),
                  docs |-> Get(props.vendorData, "docsUrl"),
                  support |-> Get(props.vendorData, "supportUrl") ] ]

\* The props the caller renders Signin with.  A prop left out is UNDEFINED;
\* handleConnect and afterSetUrl are references to the caller's functions.
PropsSet ==
    [ showConfig : BOOLEAN,
      title : {UNDEFINED, "Sign in"},
      signinError : {UNDEFINED, "invalid passcode"},
      isLoading : {UNDEFINED, "true"},
      logo : {UNDEFINED, "logo.png"},
      afterSetUrl : {UNDEFINED, "afterSetUrl"},
      handleConnect : {"handleConnect"},
      vendorData : {EmptyObj, [docsUrl |-> "https://docs"]} ]

InitialProps ==
    [ showConfig |-> FALSE, title |-> UNDEFINED, signinError |-> UNDEFINED,
      isLoading |-> UNDEFINED, logo |-> UNDEFINED, afterSetUrl |-> UNDEFINED,
      handleConnect |-> "handleConnect", vendorData |-> EmptyObj ]

\* the callback of the caller that was invoked last, with its argument and
\* the place it was invoked from
NoCallback == [fn |-> "none", state |-> FALSE, passcode |-> "", from |-> "none"]

---------------------------------------------------------------------------
(* The state machine: calls made one after another *)

Init ==
    /\ DEFAULT_CLIENT_CONFIG = InitialTemplate
    /\ call = [op |-> "none", name |-> "", rv |-> NoRuntimeValues,
               io |-> NoIO, sio |-> NoStorageIO, pre |-> InitialTemplate]
    /\ ret = [kind |-> "none"]
    /\ trace = << >>
    /\ calls = 0
    /\ tasks = [t \in Tasks |-> IdleTask]
    /\ order = << >>
    /\ screen = [props |-> InitialProps, element |-> Signin(InitialProps),
                 invoked |-> NoCallback]

LoadConfig ==
    /\ calls < MaxCalls
    /\ calls' = calls + 1
    /\ \E configName \in ConfigNames, rv \in RuntimeValuesSet, io \in FileIO(JsonTexts) :
        LET r == loadConfig(configName, rv, io, DEFAULT_CLIENT_CONFIG)
        IN  /\ DEFAULT_CLIENT_CONFIG' = r.tmpl
            /\ call' = [op |-> "loadConfig", name |-> configName, rv |-> rv,
                        io |-> io, sio |-> NoStorageIO,
                        pre |-> DEFAULT_CLIENT_CONFIG]
            /\ ret' = IF r.threw THEN [kind |-> "exception"] ELSE r.ret
            /\ trace' = r.trace
    /\ UNCHANGED <<tasks, order, screen>>

GeneratePasscodeAndConfig ==
    /\ calls < MaxCalls
    /\ calls' = calls + 1
    /\ \E draws \in DrawSequences :
        LET r == generatePasscodeAndConfig(draws, DEFAULT_CLIENT_CONFIG)
        IN  /\ DEFAULT_CLIENT_CONFIG' = r.tmpl
            /\ call' = [op |-> "generatePasscodeAndConfig", name |-> "",
                        rv |-> NoRuntimeValues, io |-> NoIO, sio |-> NoStorageIO,
                        pre |-> DEFAULT_CLIENT_CONFIG]
            /\ ret' = [kind |-> "passcodeAndConfig", passcode |-> r.passcode,
                       config |-> r.config]
            /\ trace' = << >>
    /\ UNCHANGED <<tasks, order, screen>>

LoadWorkflow ==
    /\ calls < MaxCalls
    /\ calls' = calls + 1
    /\ \E workflowName \in WorkflowNames, io \in FileIO(YamlFileTexts), sio \in StorageIO :
        LET r == loadWorkflow(workflowName, io, sio)
        IN  /\ call' = [op |-> "loadWorkflow", name |-> workflowName,
                        rv |-> NoRuntimeValues, io |-> io, sio |-> sio,
                        pre |-> DEFAULT_CLIENT_CONFIG]
            /\ ret' = [kind |-> IF r.threw THEN "exception" ELSE "value",
                       value |-> r.value]
            /\ trace' = r.trace
            /\ UNCHANGED DEFAULT_CLIENT_CONFIG
    /\ UNCHANGED <<tasks, order, screen>>

Next == LoadConfig \/ GeneratePasscodeAndConfig \/ LoadWorkflow

Spec == Init /\ [][Next]_vars

---------------------------------------------------------------------------
(* The state machine of overlapping calls: each action is one run of the    *)
(* JavaScript event loop, from the start of a call or the settling of the   *)
(* promise it awaits up to its next await or its return.                    *)

\* where control goes when a step of the file tier fails: the catch block
\* of the try, once, with no retry; the mutant re-issues the fetch
FileFailureRetriesFetch(task) ==
    IF task.fetches < 2 THEN "fetch" ELSE "catch"

FileFailureTarget(task) == "catch"

\* loadConfig from the failure or the arrival of the file up to its return
\* (lines 340-431), run against the template as it is now; the mutant runs
\* it against the template as it was when the call was made
ConfigContinuationFromCallTime(task, io, tmpl) ==
    loadConfig(task.name, task.rv, io, task.pre)

ConfigContinuation(task, io, tmpl) ==
    loadConfig(task.name, task.rv, io, tmpl)

\* the call task, which is call t, returns: its promise resolves with the
\* config
CompleteConfig(t, task, io) ==
    LET r == ConfigContinuation(task, io, DEFAULT_CLIENT_CONFIG)
    IN  /\ tasks' = [tasks EXCEPT ![t] =
                        [task EXCEPT !.pc = "done", !.io = io, !.ret = r.ret,
                                     !.seen = IF r.ret.kind = "object"
                                              THEN View(r.ret.config, r.tmpl)
                                              ELSE NoConfig,
                                     !.trace = r.trace]]
        /\ DEFAULT_CLIENT_CONFIG' = r.tmpl
        /\ order' = Append(order, t)

\* a loadWorkflow call returns
CompleteWorkflow(t, task, io, sio) ==
    LET r == loadWorkflow(task.name, io, sio)
    IN  /\ tasks' = [tasks EXCEPT ![t] =
                        [task EXCEPT !.pc = "done", !.io = io, !.sio = sio,
                                     !.ret = [kind |-> IF r.threw THEN "exception"
                                                       ELSE "value",
                                              value |-> r.value],
                                     !.trace = r.trace]]
        /\ order' = Append(order, t)
        /\ UNCHANGED DEFAULT_CLIENT_CONFIG

\* the call suspends at the await named pc
Suspend(t, task, pc) ==
    /\ tasks' = [tasks EXCEPT ![t] =
                    [task EXCEPT !.pc = pc,
                                 !.fetches = IF pc = "fetch" THEN @ + 1 ELSE @,
                                 !.texts = IF pc = "text" THEN @ + 1 ELSE @,
                                 !.reads = IF pc = "storage" THEN @ + 1 ELSE @]]
    /\ UNCHANGED <<DEFAULT_CLIENT_CONFIG, order>>

\* the inner catch of loadWorkflow up to its return or its await of
\* storage.local.get (lines 240-252); getExtensionApi may throw
WorkflowCatch(t, task, io) ==
    IF Truthy(EmbeddedLookup(task.name))
    THEN CompleteWorkflow(t, task, io, NoStorageIO)
    ELSE \/ CompleteWorkflow(t, task, io,
                             [outcome |-> "apiThrows", stored |-> UNDEFINED])
         \/ Suspend(t, [task EXCEPT !.io = io], "storage")

\* a step of the file tier failed with outcome io
FileFailed(t, task, io) ==
    IF FileFailureTarget(task) = "fetch" THEN Suspend(t, task, "fetch")
    ELSE IF task.op = "loadConfig" THEN CompleteConfig(t, task, io)
    ELSE WorkflowCatch(t, task, io)

\* the synchronous start of a call (lines 226-230, 326-330): getURL throws,
\* or the fetch is issued and the call suspends
StartCall(t, op, name, rv) ==
    LET started == [tasks[t] EXCEPT !.op = op, !.name = name, !.rv = rv,
                                    !.pre = DEFAULT_CLIENT_CONFIG]
    IN  /\ tasks[t].pc = "idle"
        /\ \/ Suspend(t, started, "fetch")
           \/ IF op = "loadConfig"
              THEN CompleteConfig(t, started,
                                  [outcome |-> "getURLThrows", text |-> ""])
              ELSE WorkflowCatch(t, started,
                                 [outcome |-> "getURLThrows", text |-> ""])
        /\ UNCHANGED <<call, ret, trace, calls, screen>>

StartLoadConfig(t) ==
    \E configName \in ConfigNames, rv \in AsyncRuntimeValues :
        StartCall(t, "loadConfig", configName, rv)

StartLoadWorkflow(t) ==
    \E workflowName \in AsyncWorkflowNames :
        StartCall(t, "loadWorkflow", workflowName, NoRuntimeValues)

\* the promise of fetch settles: it rejects, or resolves with a response
\* that is not ok, or with one whose text() is then called (lines 330-336)
FetchSettles(t) ==
    /\ tasks[t].pc = "fetch"
    /\ \/ \E outcome \in {"fetchRejects", "notOk"} :
             FileFailed(t, tasks[t], [outcome |-> outcome, text |-> ""])
       \/ Suspend(t, tasks[t], "text")
    /\ UNCHANGED <<call, ret, trace, calls, screen>>

\* the promise of response.text() settles: it rejects, or resolves with the
\* body, which is parsed (lines 336-377, 237-239)
TextSettles(t) ==
    /\ tasks[t].pc = "text"
    /\ \/ FileFailed(t, tasks[t], [outcome |-> "textRejects", text |-> ""])
       \/ /\ tasks[t].op = "loadConfig"
          /\ \E text \in JsonTexts :
                CompleteConfig(t, tasks[t], [outcome |-> "ok", text |-> text])
       \/ /\ tasks[t].op = "loadWorkflow"
          /\ \E text \in YamlFileTexts :
                LET io == [outcome |-> "ok", text |-> text]
                IN  IF WorkflowFileTry(tasks[t].name, io).threw
                    THEN FileFailed(t, tasks[t], io)
                    ELSE CompleteWorkflow(t, tasks[t], io, NoStorageIO)
    /\ UNCHANGED <<call, ret, trace, calls, screen>>

\* the promise of storage.local.get settles (lines 252-262)
StorageSettles(t) ==
    /\ tasks[t].pc = "storage"
    /\ \E sio \in { x \in StorageIO : x.outcome # "apiThrows" } :
          CompleteWorkflow(t, tasks[t], tasks[t].io, sio)
    /\ UNCHANGED <<call, ret, trace, calls, screen>>

AsyncNext ==
    \E t \in Tasks :
        \/ StartLoadConfig(t)
        \/ StartLoadWorkflow(t)
        \/ FetchSettles(t)
        \/ TextSettles(t)
        \/ StorageSettles(t)

AsyncSpec == Init /\ [][AsyncNext]_vars

\* every promise a call awaits eventually settles
AsyncFairness ==
    \A t \in Tasks :
        /\ WF_vars(FetchSettles(t))
        /\ WF_vars(TextSettles(t))
        /\ WF_vars(StorageSettles(t))

AsyncFairSpec == AsyncSpec /\ AsyncFairness

---------------------------------------------------------------------------
(* The state machine of the Signin view inside its caller: the caller owns  *)
(* the props, reacts to the callbacks and renders the view again.           *)

\* the caller renders the view with the props next
RenderWith(next, invoked) ==
    /\ screen' = [props |-> next, element |-> Signin(next), invoked |-> invoked]
    /\ UNCHANGED <<DEFAULT_CLIENT_CONFIG, call, ret, trace, calls, tasks, order>>

\* the caller renders the view with other props
CallerRenders ==
    \E next \in PropsSet :
        /\ next # screen.props
        /\ RenderWith(next, screen.invoked)

\* the user clicks the settings button: its onClick runs, the caller's
\* setShowConfig stores the state and the view is rendered again
ClickSettings ==
    LET onClick == screen.element.button.onClick
    IN  RenderWith([screen.props EXCEPT !.showConfig = onClick.state],
                   [fn |-> onClick.calls, state |-> onClick.state,
                    passcode |-> "", from |-> "settingsButton"])

\* the configuration sub-view calls its handleBack prop
ConfigBack ==
    /\ screen.element.body.component = "Config"
    /\ LET handleBack == screen.element.body.props.handleBack
       IN  RenderWith([screen.props EXCEPT !.showConfig = handleBack.state],
                      [fn |-> handleBack.calls, state |-> handleBack.state,
                       passcode |-> "", from |-> "handleBack"])

\* the sign-in sub-view calls the handleConnect prop it was given; the
\* caller starts connecting and shows that it is loading, or shows an error
SubViewConnects ==
    /\ "handleConnect" \in DOMAIN screen.element.body.props
    /\ \E passcode \in {""} \cup Passcodes,
          outcome \in {[signinError |-> UNDEFINED, isLoading |-> "true"],
                       [signinError |-> "invalid passcode", isLoading |-> UNDEFINED]} :
          RenderWith([screen.props EXCEPT !.signinError = outcome.signinError,
                                          !.isLoading = outcome.isLoading],
                     [fn |-> screen.element.body.props.handleConnect,
                      state |-> FALSE, passcode |-> passcode,
                      from |-> screen.element.body.component])

ViewNext == CallerRenders \/ ClickSettings \/ ConfigBack \/ SubViewConnects

ViewSpec == Init /\ [][ViewNext]_vars

---------------------------------------------------------------------------
(* Properties *)

\* the last call was a loadConfig that took the default-template branch
DefaultBranchTaken ==
    call.op = "loadConfig" /\ trace = <<"file", "default">>

\* the last call handed a config object to its caller
ConfigReturned == ret.kind \in {"object", "passcodeAndConfig"}

\* the config the last call returned, as its holder reads it now
ReturnedView == View(ret.config, DEFAULT_CLIENT_CONFIG)

\* C1: after any sequence of loadConfig and generatePasscodeAndConfig calls
\* the template DEFAULT_CLIENT_CONFIG, nested objects included, equals its
\* initial value.
C1_TemplateNeverMutated == DEFAULT_CLIENT_CONFIG = InitialTemplate

\* C2: a loadConfig call returns what the same call (same name, runtime
\* values and file-tier outcome) returns on a freshly loaded module, whatever
\* calls came before it.
C2_NoCrossContamination ==
    call.op = "loadConfig" =>
        LET fresh == loadConfig(call.name, call.rv, call.io, InitialTemplate)
        IN  /\ ret.kind = fresh.ret.kind
            /\ ret.kind = "object" =>
                 ReturnedView = View(fresh.ret.config, fresh.tmpl)

\* C3: a config that has been returned to a caller is not changed by any
\* later call.
C3_ReturnedConfigNeverChanges ==
    [][ConfigReturned =>
         View(ret.config, DEFAULT_CLIENT_CONFIG)
           = View(ret.config, DEFAULT_CLIENT_CONFIG')]_vars

\* C4: a default-branch loadConfig whose runtime values carry no bran returns
\* a config with no bran key at the top level or in any agent entry, whatever
\* calls preceded it.
C4_NoBranKeyWithoutBran ==
    (DefaultBranchTaken /\ "bran" \notin DOMAIN call.rv.vals /\ ret.kind = "object") =>
        /\ ReturnedView.bran = ABSENT
        /\ \A a \in DOMAIN ReturnedView.agents.val :
               "bran" \notin DOMAIN ReturnedView.agents.val[a]

FileFailedStorageUnavailable ==
    /\ call.op = "loadWorkflow"
    /\ ret.kind = "value"
    /\ Len(trace) > 1
    /\ call.sio.outcome \in {"apiThrows", "getRejects"}

FallbackNames == {"create-client-workflow", "create-client", "create-aid-workflow"}

WithFallbackSuffix(obj) ==
    [obj EXCEPT !.workflow.steps =
        [k \in DOMAIN @ |-> [@[k] EXCEPT !.description = @ \o " (FALLBACK)"]]]

C7_NullOnlyFromDefaultBranchError ==
    call.op = "loadConfig" =>
        /\ ret.kind # "exception"
        /\ ret.kind = "null" => trace = <<"file", "default">>
        /\ (call.io.outcome = "ok" /\ ~JSONParse(call.io.text).threw) =>
             ret.kind = "object"

\* every identifier of config names an agent that config has
IdentifiersReferToAgents(config) ==
    config.identifiers.in # "absent" =>
        \A id \in DOMAIN config.identifiers.val :
            /\ config.agents.in # "absent"
            /\ config.identifiers.val[id].agent \in DOMAIN config.agents.val

\* C8: in every config loadConfig returns, each identifier's agent is a key of
\* the config's agents: in the default branch always, in the file branch
\* whenever the loaded file satisfied this before the overlay.
C8_IdentifierAgentsExist ==
    (call.op = "loadConfig" /\ ret.kind = "object") =>
        ( ( trace = <<"file">> =>
              IdentifiersReferToAgents(JSONParse(call.io.text).value.config) )
          => IdentifiersReferToAgents(ReturnedView) )

\* C9: a bundled file that is fetched but fails to parse sends the call down
\* the same path as a failed fetch: the value returned, the template left
\* behind and the tiers consulted equal those of the same call, from the same
\* module state, with the file tier failing in any other way.
C9_MalformedFileLikeFetchFailure ==
    /\ (call.op = "loadConfig" /\ call.io.outcome = "ok"
          /\ JSONParse(call.io.text).threw) =>
         \A f \in FileFailures :
            LET r == loadConfig(call.name, call.rv, [outcome |-> f, text |-> ""],
                                call.pre)
            IN  /\ ~r.threw /\ ret = r.ret
                /\ DEFAULT_CLIENT_CONFIG = r.tmpl
                /\ trace = r.trace
    /\ (call.op = "loadWorkflow" /\ call.io.outcome = "ok"
          /\ yamlLoad(call.io.text).threw) =>
         \A f \in FileFailures :
            LET r == loadWorkflow(call.name, [outcome |-> f, text |-> ""], call.sio)
            IN  /\ ~r.threw /\ ret.kind = "value" /\ ret.value = r.value
                /\ trace = r.trace

\* a loadConfig call, after an earlier call, whose bundled file arrived but
\* was not JSON, and which answered from the default template
C9_Witness ==
    /\ DefaultBranchTaken
    /\ calls = 2
    /\ call.io = [outcome |-> "ok", text |-> JsonMalformed]
    /\ call.rv.given
    /\ ret.kind = "object"

\* the last call was a default-branch loadConfig given all of agentUrl,
\* bootUrl, passcode and bran
FullOverlayOnDefault ==
    /\ DefaultBranchTaken
    /\ ret.kind = "object"
    /\ {"agentUrl", "bootUrl", "passcode", "bran"} \subseteq DOMAIN call.rv.vals

\* the returned config carries U, B, P and BR in every place the overlay
\* writes them
OverlayVisible ==
    LET v == ReturnedView
        e == v.agents.val.browser_extension
    IN  /\ Get(e, "url") = call.rv.vals.agentUrl
        /\ Get(e, "boot_url") = call.rv.vals.bootUrl
        /\ Get(e, "passcode") = call.rv.vals.passcode
        /\ Get(e, "bran") = call.rv.vals.bran
        /\ Get(e, "secret") = "browser_extension"
        /\ v.agentUrl = call.rv.vals.agentUrl
        /\ v.bootUrl = call.rv.vals.bootUrl
        /\ v.bran = call.rv.vals.bran
        /\ v.secrets.val.browser_extension = call.rv.vals.passcode

\* C10 as stated: with no bundled file, loadConfig with runtime values
\* {agentUrl: U, bootUrl: B, passcode: P, bran: BR} returns a config carrying
\* U, B, P, BR in agents.browser_extension, at the top level and in
\* secrets.browser_extension, for every U, B, P, BR.
C10_OverlayForEveryValue == FullOverlayOnDefault => OverlayVisible

\* C10 as amended: the same, for every U and B and every non-empty P and BR,
\* after any earlier calls.
C10_OverlayForNonEmptyValues ==
    (FullOverlayOnDefault /\ Truthy(call.rv.vals.passcode)
       /\ Truthy(call.rv.vals.bran)) => OverlayVisible

\* a full overlay applied to a template an earlier call has already changed
C10_Witness ==
    /\ FullOverlayOnDefault
    /\ Truthy(call.rv.vals.passcode)
    /\ Truthy(call.rv.vals.bran)
    /\ calls = 2
    /\ call.pre # InitialTemplate
    /\ OverlayVisible

\* the config the last loadConfig call held just before its overlay: the
\* parsed file in the file branch, the copy of the template in the default
\* branch
ConfigBeforeOverlay ==
    IF trace = <<"file">>
    THEN JSONParse(call.io.text).value.config
    ELSE View(ShallowCopy(call.pre), call.pre)

\* the agent entry the overlay of the last loadConfig call targets
TargetAgent ==
    IF trace = <<"file">> THEN "gleif-agent-1" ELSE "browser_extension"

OverlayTopKeys == {"agentUrl", "bootUrl", "bran"}
OverlayAgentKeys == {"url", "boot_url", "passcode", "bran"}

\* f without the keys in ks
Without(f, ks) == [k \in DOMAIN f \ ks |-> f[k]]

\* every key of before, at the top level, in each nested object and in each
\* agent entry, is a key of after
KeysKept(before, after) ==
    /\ \A k \in OverlayTopKeys : before[k] # ABSENT => after[k] # ABSENT
    /\ \A s \in Sections :
          before[s].in # "absent" =>
             /\ after[s].in # "absent"
             /\ DOMAIN before[s].val \subseteq DOMAIN after[s].val
    /\ before.agents.in # "absent" =>
          \A a \in DOMAIN before.agents.val :
             DOMAIN before.agents.val[a] \subseteq DOMAIN after.agents.val[a]

\* after differs from before at most in the places the overlay may write
OnlyOverlayPlacesChange(before, after) ==
    /\ after.users = before.users
    /\ after.credentials = before.credentials
    /\ after.secrets.in = before.secrets.in
    /\ Without(after.secrets.val,
               IF DefaultBranchTaken THEN {"browser_extension"} ELSE {})
         = Without(before.secrets.val,
                   IF DefaultBranchTaken THEN {"browser_extension"} ELSE {})
    /\ after.agents.in = before.agents.in
    /\ Without(after.agents.val, {TargetAgent})
         = Without(before.agents.val, {TargetAgent})
    /\ TargetAgent \in DOMAIN after.agents.val =>
          /\ TargetAgent \in DOMAIN before.agents.val
          /\ Without(after.agents.val[TargetAgent], OverlayAgentKeys)
               = Without(before.agents.val[TargetAgent], OverlayAgentKeys)
    /\ after.identifiers.in = before.identifiers.in
    /\ Without(after.identifiers.val, {RV(call.rv, "aidName")})
         = Without(before.identifiers.val, {RV(call.rv, "aidName")})

\* C11: the overlay of loadConfig drops no key: every key the config had
\* before the overlay (top level, the targeted agent entry, the other agent
\* entries, the identifiers, secrets, users, credentials) is there afterwards,
\* and nothing changes except url, boot_url, passcode and bran of the targeted
\* agent entry, the top-level agentUrl, bootUrl and bran, the identifiers
\* entry named by aidName and, in the default branch,
\* secrets.browser_extension.
C11_OverlayDropsNoKey ==
    (call.op = "loadConfig" /\ ret.kind = "object") =>
        /\ KeysKept(ConfigBeforeOverlay, ReturnedView)
        /\ OnlyOverlayPlacesChange(ConfigBeforeOverlay, ReturnedView)

\* a full overlay applied to a parsed file whose targeted agent entry already
\* had a secret and a url, and whose identifiers already had an entry
C11_Witness ==
    /\ call.op = "loadConfig"
    /\ trace = <<"file">>
    /\ call.io.text = JsonGleif
    /\ {"agentUrl", "passcode", "aidName"} \subseteq DOMAIN call.rv.vals
    /\ ret.kind = "object"
    /\ ReturnedView.agents.val["gleif-agent-1"].secret = "gleif-agent-1"
    /\ ReturnedView.agents.val["gleif-agent-1"].url = "U1"
    /\ DOMAIN ReturnedView.identifiers.val = {"gleif-aid-1", "aid1"}

\* the alphabet A-Z, a-z, 0-9, '-', '_'
Alphabet ==
    {"A", "B", "C", "D", "E", "F", "G", "H", "I", "J", "K", "L", "M",
     "N", "O", "P", "Q", "R", "S", "T", "U", "V", "W", "X", "Y", "Z"}
    \cup
    {"a", "b", "c", "d", "e", "f", "g", "h", "i", "j", "k", "l", "m",
     "n", "o", "p", "q", "r", "s", "t", "u", "v", "w", "x", "y", "z"}
    \cup {"0", "1", "2", "3", "4", "5", "6", "7", "8", "9"}
    \cup {"-", "_"}

\* C12: every generatePasscodeAndConfig call returns a passcode of exactly 20
\* characters, each one of the 64 characters of the alphabet, and a config
\* whose secrets.browser_extension is that passcode.
C12_PasscodeShapeAndSecret ==
    call.op = "generatePasscodeAndConfig" =>
        /\ Cardinality(Alphabet) = 64
        /\ Len(ret.passcode) = 20
        /\ \A i \in 1..Len(ret.passcode) :
               SubSeq(ret.passcode, i, i) \in Alphabet
        /\ ReturnedView.secrets.val.browser_extension = ret.passcode

\* a generatePasscodeAndConfig call, after an earlier call that changed the
\* template, whose first draw was the last index of the alphabet
C12_Witness ==
    /\ call.op = "generatePasscodeAndConfig"
    /\ calls = 2
    /\ call.pre # InitialTemplate
    /\ SubSeq(ret.passcode, 1, 1) = "_"
    /\ Len(ret.passcode) = 20
    /\ ReturnedView.secrets.val.browser_extension = ret.passcode

\* the order in which loadWorkflow may consult its tiers
TierOrder == <<"file", "embedded", "storage", "fallback">>

Consulted(tier) == \E i \in DOMAIN trace : trace[i] = tier

\* the file tier of the last call did not produce a document
FileTierFailed ==
    call.io.outcome # "ok" \/ yamlLoad(call.io.text).threw

\* the storage tier of the last call threw, held no entry, or held an entry
\* that failed to parse
StorageTierFailed ==
    \/ call.sio.outcome # "ok"
    \/ ~Truthy(call.sio.stored)
    \/ yamlLoad(call.sio.stored).threw

\* C13: loadWorkflow consults its tiers in the order file, embedded table,
\* storage, fallback, each at most once, and answers from the first that
\* succeeds: the embedded table only after the file tier failed, storage only
\* after the file tier failed and the name is not in the table, the fallback
\* only after storage threw, held no entry or held an unparsable entry; no
\* tier is consulted after the one that produced the result.
C13_TiersInOrder ==
    call.op = "loadWorkflow" =>
        /\ Len(trace) \in 1..Len(TierOrder)
        /\ trace = SubSeq(TierOrder, 1, Len(trace))
        /\ Consulted("embedded") => FileTierFailed
        /\ Consulted("storage") =>
              FileTierFailed /\ call.name \notin DOMAIN EMBEDDED_WORKFLOWS
        /\ Consulted("fallback") => Consulted("storage") /\ StorageTierFailed
        /\ ~FileTierFailed =>
              trace = <<"file">> /\ ret.value = yamlLoad(call.io.text).value
        /\ (FileTierFailed /\ call.name \in DOMAIN EMBEDDED_WORKFLOWS) =>
              /\ trace = <<"file", "embedded">>
              /\ ret.value = yamlLoad(EMBEDDED_WORKFLOWS[call.name]).value
        /\ trace[Len(trace)] = "storage" =>
              /\ ~StorageTierFailed
              /\ ret.value = yamlLoad(call.sio.stored).value
        /\ trace[Len(trace)] = "fallback" =>
              ret.value = getFallbackWorkflow(call.name)

\* a loadWorkflow call that went through all four tiers: the bundled file
\* arrived but did not parse, the name is not in the table, and the stored
\* entry did not parse either
C13_Witness ==
    /\ call.op = "loadWorkflow"
    /\ call.name = "issue-credential"
    /\ call.io = [outcome |-> "ok", text |-> YamlMalformed]
    /\ call.sio = [outcome |-> "ok", stored |-> YamlMalformed]
    /\ trace = TierOrder
    /\ ret.value = WfNull

\* the template after the first i overlapping calls to return have been run
\* one after another, in the order of their return, from the initial template
RECURSIVE SerialTemplate(_)
SerialTemplate(i) ==
    IF i = 0 THEN InitialTemplate
    ELSE LET task == tasks[order[i]]
         IN  IF task.op = "loadConfig"
             THEN loadConfig(task.name, task.rv, task.io, SerialTemplate(i - 1)).tmpl
             ELSE SerialTemplate(i - 1)

\* what the i-th call to return gives in that serial run
SerialResult(i) ==
    LET task == tasks[order[i]]
    IN  loadConfig(task.name, task.rv, task.io, SerialTemplate(i - 1))

\* C14: overlapping loadConfig calls are suspended only at the awaits of the
\* file tier (fetch and the body read), and every interleaving gives what the
\* same calls give when run one after another in some order (the order in
\* which they return): each call's result, what its caller reads in the
\* config on return, and the template left behind.
C14_InterleavingsSerializable ==
    /\ \A t \in Tasks :
          tasks[t].op = "loadConfig" =>
             tasks[t].pc \in {"fetch", "text", "done"}
    /\ \A i \in DOMAIN order :
          tasks[order[i]].op = "loadConfig" =>
             LET r == SerialResult(i)
             IN  /\ tasks[order[i]].ret = r.ret
                 /\ tasks[order[i]].trace = r.trace
                 /\ r.ret.kind = "object" =>
                      tasks[order[i]].seen = View(r.ret.config, r.tmpl)
    /\ DEFAULT_CLIENT_CONFIG = SerialTemplate(Len(order))

\* two loadConfig calls overlapped: both were made against the initial
\* template, call 2 returned first and wrote its passcode, call 1 returned
\* second with its own bran and call 2's passcode
C14_Witness ==
    /\ order = <<2, 1>>
    /\ tasks[1].op = "loadConfig" /\ tasks[2].op = "loadConfig"
    /\ tasks[1].pre = InitialTemplate /\ tasks[2].pre = InitialTemplate
    /\ tasks[2].trace = <<"file", "default">>
    /\ tasks[1].trace = <<"file", "default">>
    /\ tasks[1].io.outcome = "ok"
    /\ "passcode" \in DOMAIN tasks[2].rv.vals
    /\ "bran" \in DOMAIN tasks[1].rv.vals
    /\ tasks[1].seen.secrets.val.browser_extension = tasks[2].rv.vals.passcode
    /\ tasks[1].seen.bran = tasks[1].rv.vals.bran

\* C15: when every fetch, body read and storage read eventually settles,
\* every loadWorkflow and loadConfig call that was made eventually returns,
\* and a call issues each of its I/O operations at most once.
C15_EveryCallReturns ==
    /\ [](\A t \in Tasks :
             /\ tasks[t].fetches <= 1
             /\ tasks[t].texts <= 1
             /\ tasks[t].reads <= 1)
    /\ \A t \in Tasks : (tasks[t].pc # "idle") ~> (tasks[t].pc = "done")

\* a loadWorkflow call that issued all three I/O operations, each once, and
\* returned, while the other call is still waiting for its fetch
C15_Witness ==
    /\ tasks[1].op = "loadWorkflow"
    /\ tasks[1].pc = "done"
    /\ tasks[1].fetches = 1 /\ tasks[1].texts = 1 /\ tasks[1].reads = 1
    /\ tasks[1].trace = TierOrder
    /\ tasks[2].op = "loadConfig"
    /\ tasks[2].pc = "fetch"

\* C16: for every props value the Signin view renders exactly one sub-view,
\* the configuration sub-view if and only if showConfig is true and the
\* sign-in sub-view otherwise; what it renders depends on its props alone; it
\* calls setShowConfig only with true, from the settings button, and with
\* false, from the back handler of the configuration sub-view; it hands
\* handleConnect to the sign-in sub-view only and never calls it itself.
C16_OneSubViewByToggle ==
    /\ screen.element = Signin(screen.props)
    /\ screen.element.body.component \in {"Config", "SigninComponent"}
    /\ screen.element.body.component = "Config" <=> screen.props.showConfig
    /\ "handleConnect" \in DOMAIN screen.element.body.props
         <=> screen.element.body.component = "SigninComponent"
    /\ screen.element.body.component = "SigninComponent" =>
         screen.element.body.props.handleConnect = screen.props.handleConnect
    /\ screen.element.button.onClick = CallsSetShowConfig(TRUE)
    /\ screen.element.body.component = "Config" =>
         screen.element.body.props.handleBack = CallsSetShowConfig(FALSE)
    /\ screen.invoked.fn = "setShowConfig" =>
         \/ screen.invoked.from = "settingsButton" /\ screen.invoked.state
         \/ screen.invoked.from = "handleBack" /\ ~screen.invoked.state
    /\ screen.invoked.fn = "handleConnect" =>
         screen.invoked.from = "SigninComponent"

\* the settings button was clicked while the configuration sub-view was
\* already shown, with every optional prop set: the view still shows the
\* configuration sub-view
C16_Witness ==
    /\ screen.invoked = [fn |-> "setShowConfig", state |-> TRUE,
                         passcode |-> "", from |-> "settingsButton"]
    /\ screen.props.showConfig
    /\ screen.props.signinError = "invalid passcode"
    /\ screen.props.title = "Sign in"
    /\ screen.element.title = formatMessage("account.settings")
    /\ screen.element.body.component = "Config"
    /\ screen.element.body.props.afterSetUrl = "afterSetUrl"

============================================================================
